---- MODULE Spec2Model ----
(***************************************************************************)
(* bookit: the generic record store (trait Crud, src/src/generics.rs) and  *)
(* the filter pipeline (trait Filter) that Contractor, Alias and HourLog   *)
(* are built on.                                                           *)
(*                                                                         *)
(* Spec        the store: one backing file, the Crud methods and the       *)
(*             command handlers that call them.                            *)
(* SpecFilter  apply_filterset and view_filtered_set over bounded inputs.  *)
(* SpecRetrieve  retrieve over collections of more than ten records.       *)
(* SpecFault   one call of Crud or ConfigCrud on a faulty file.            *)
(* SpecRace    two processes that run a mutating method of Crud on the     *)
(*             same file, one file system call at a time.                  *)
(* SpecArgs    interpret_time and parse_date on one argument of the book   *)
(*             command, at a sampled local time and date.                  *)
(* SpecDb      the sqlite store of src/db on a migrated connection.        *)
(***************************************************************************)
EXTENDS Integers, Sequences, FiniteSets, TLC

VARIABLES
    entity,      \* the entity type T the store is instantiated for
    bookit_dir,  \* whether the environment variable BOOKIT_DIR is set
    file,        \* the backing file BOOKIT_DIR/T::FILE (SpecDb: the database)
    last,        \* the last call: its arguments, its result, the file before it
    procs        \* the processes that run a method of Crud step by step

vars == <<entity, bookit_dir, file, last, procs>>

(***************************************************************************)
(* Bounds                                                                  *)
(***************************************************************************)
NumSlugs == 2
NumVariants == 2
MaxItems == 3
MaxFilters == 3
MaxViewFilters == 1
MaxSlugs == 11

(***************************************************************************)
(* Sample values                                                           *)
(***************************************************************************)
SlugNames ==
    <<"acme", "beta", "corp", "delta", "echo", "fox", "golf", "hotel", "india",
      "juliet", "kilo", "lima", "mike">>
Names == <<"Acme Corp", "Other", "Third", "Fourth">>

Slugs == {SlugNames[i] : i \in 1..NumSlugs}
Variants == 1..NumVariants

Entities == {"Contractor", "Alias", "HourLog"}

None == [some |-> FALSE, v |-> ""]
Some(x) == [some |-> TRUE, v |-> x]

Unit == "()"
Ok(v) == [tag |-> "Ok", val |-> v]
\* A CliError: its variant and the strings it carries.
Err(kind, detail) == [tag |-> "Err", kind |-> kind, detail |-> detail]

(***************************************************************************)
(* Records                                                                 *)
(***************************************************************************)
Contractor(slug, v) == [slug |-> slug, name |-> Names[v]]

Alias(slug, v) ==
    [slug |-> slug, contractor |-> SlugNames[v],
     short_description |-> Names[v], hourly_rate |-> 10 * v]

\* date and timestamp are the index of the day in DateTexts / TimestampTexts.
HourLog(id, v) ==
    [alias |-> SlugNames[v], minutes |-> 30 * v, date |-> v,
     message |-> IF v = 1 THEN None ELSE Some(Names[v]),
     ticket |-> None, branch |-> None, id |-> id, timestamp |-> v]

Rec(T, slug, v) ==
    CASE T = "Contractor" -> Contractor(slug, v)
      [] T = "Alias" -> Alias(slug, v)
      [] T = "HourLog" -> HourLog(slug, v)

Records(T) == {Rec(T, s, v) : s \in Slugs, v \in Variants}

FILE(T) ==
    CASE T = "Contractor" -> "contractors_test.toml"
      [] T = "Alias" -> "alias_test.toml"
      [] T = "HourLog" -> "hourstest.json"

identifier(T, self) == IF T = "HourLog" THEN self.id ELSE self.slug

(***************************************************************************)
(* The mapping (HashMap<String, T>) and the codec                          *)
(***************************************************************************)
EmptyMap == <<>>

contains_key(map, slug) == slug \in DOMAIN map

\* Mutant: the mapping is emptied before the entry is put in.
insert_into_empty(map, key, value) == [k \in {key} |-> value]

insert(map, key, value) ==
    [k \in (DOMAIN map) \cup {key} |-> IF k = key THEN value ELSE map[k]]

remove(map, key) == [k \in (DOMAIN map) \ {key} |-> map[k]]

\* chrono's text forms of the dates and timestamps of Records(T).
DateTexts == <<"2020-04-20", "2020-04-21", "2020-04-22", "2020-04-23">>
TimestampTexts ==
    <<"2020-04-20T09:00:00", "2020-04-21T09:00:00",
      "2020-04-22T09:00:00", "2020-04-23T09:00:00">>

\* Printing a value of a table of text forms, and parsing it back.
to_text(texts, v) == texts[v]

from_text(texts, s) ==
    IF \E i \in DOMAIN texts : texts[i] = s
    THEN Ok(CHOOSE i \in DOMAIN texts : texts[i] = s)
    ELSE Err("Serialization", <<"invalid value">>)

\* The values of the text of a file (TOML or JSON).
Str(s) == [t |-> "string", v |-> s]
Num(n) == [t |-> "integer", v |-> n]
Null == [t |-> "null", v |-> ""]

\* serde: Option<String> is written as null or as a string.
encode_option(o) == IF o.some THEN Str(o.v) ELSE Null

decode_option(x) == IF x.t = "null" THEN None ELSE Some(x.v)

\* Mutant: an absent optional field is written as the empty string.
encode_none_as_empty_string(T, self) ==
    CASE T = "Contractor" -> [slug |-> Str(self.slug), name |-> Str(self.name)]
      [] T = "Alias" ->
            [slug |-> Str(self.slug), contractor |-> Str(self.contractor),
             short_description |-> Str(self.short_description),
             hourly_rate |-> Num(self.hourly_rate)]
      [] T = "HourLog" ->
            [alias |-> Str(self.alias), minutes |-> Num(self.minutes),
             date |-> Str(to_text(DateTexts, self.date)),
             message |-> Str(self.message.v), ticket |-> Str(self.ticket.v),
             branch |-> Str(self.branch.v), id |-> Str(self.id),
             timestamp |-> Str(to_text(TimestampTexts, self.timestamp))]

\* derive(Serialize): one value per field of the struct.
encode(T, self) ==
    CASE T = "Contractor" -> [slug |-> Str(self.slug), name |-> Str(self.name)]
      [] T = "Alias" ->
            [slug |-> Str(self.slug), contractor |-> Str(self.contractor),
             short_description |-> Str(self.short_description),
             hourly_rate |-> Num(self.hourly_rate)]
      [] T = "HourLog" ->
            [alias |-> Str(self.alias), minutes |-> Num(self.minutes),
             date |-> Str(to_text(DateTexts, self.date)),
             message |-> encode_option(self.message),
             ticket |-> encode_option(self.ticket),
             branch |-> encode_option(self.branch), id |-> Str(self.id),
             timestamp |-> Str(to_text(TimestampTexts, self.timestamp))]

\* The fields of the struct, and whether the values x has for them are of the
\* types derive(Deserialize) accepts.
Fields(T) ==
    CASE T = "Contractor" -> {"slug", "name"}
      [] T = "Alias" -> {"slug", "contractor", "short_description", "hourly_rate"}
      [] T = "HourLog" ->
            {"alias", "minutes", "date", "message", "ticket", "branch", "id",
             "timestamp"}

well_typed(T, x) ==
    CASE T = "Contractor" -> x.slug.t = "string" /\ x.name.t = "string"
      [] T = "Alias" ->
            /\ x.slug.t = "string"
            /\ x.contractor.t = "string"
            /\ x.short_description.t = "string"
            /\ x.hourly_rate.t = "integer"
            /\ x.hourly_rate.v \in 0..255
      [] T = "HourLog" ->
            /\ x.alias.t = "string"
            /\ x.minutes.t = "integer"
            /\ x.minutes.v >= 0   \* u32: no value of the model exceeds its range
            /\ x.date.t = "string"
            /\ from_text(DateTexts, x.date.v).tag = "Ok"
            /\ \A o \in {x.message, x.ticket, x.branch} : o.t \in {"null", "string"}
            /\ x.id.t = "string"
            /\ x.timestamp.t = "string"
            /\ from_text(TimestampTexts, x.timestamp.v).tag = "Ok"

\* derive(Deserialize).
decode(T, x) ==
    IF DOMAIN x # Fields(T) THEN Err("Serialization", <<"missing field">>)
    ELSE IF ~well_typed(T, x) THEN Err("Serialization", <<"invalid type">>)
    ELSE CASE T = "Contractor" -> Ok([slug |-> x.slug.v, name |-> x.name.v])
           [] T = "Alias" ->
                 Ok([slug |-> x.slug.v, contractor |-> x.contractor.v,
                     short_description |-> x.short_description.v,
                     hourly_rate |-> x.hourly_rate.v])
           [] T = "HourLog" ->
                 Ok([alias |-> x.alias.v, minutes |-> x.minutes.v,
                     date |-> from_text(DateTexts, x.date.v).val,
                     message |-> decode_option(x.message),
                     ticket |-> decode_option(x.ticket),
                     branch |-> decode_option(x.branch), id |-> x.id.v,
                     timestamp |-> from_text(TimestampTexts, x.timestamp.v).val])

\* Text cut off in the middle of an entry: what is left of it does not parse.
Torn == [key |-> "", val |-> [torn |-> Str("")]]

\* The text of a file: one table (TOML) or member (JSON) per entry.
serialize(T, map) == Ok({[key |-> k, val |-> encode(T, map[k])] : k \in DOMAIN map})

deserialize(T, s) ==
    IF \E e1, e2 \in s : e1 # e2 /\ e1.key = e2.key
    THEN Err("Serialization", <<"duplicate key">>)
    ELSE IF \E e \in s : decode(T, e.val).tag = "Err"
    THEN Err("Serialization", <<"invalid entry">>)
    ELSE Ok([k \in {e.key : e \in s} |->
                decode(T, (CHOOSE e \in s : e.key = k).val).val])

(***************************************************************************)
(* The file system                                                         *)
(***************************************************************************)
\* A file: whether it exists, its text, whether it can be read, and how a write
\* to it ends:
\*   "ok"         the text is replaced;
\*   "denied"     the file cannot be opened for writing and is left as it is;
\*   "truncated"  the file is opened, which empties it, and no byte is written;
\*   "torn"       the write fails after a part of the first entry was written.
WriteFaults == {"denied", "truncated", "torn"}

NoFile == [exists |-> FALSE, text |-> {}, readable |-> TRUE, write |-> "ok"]
FileWith(s) == [exists |-> TRUE, text |-> s, readable |-> TRUE, write |-> "ok"]

read_to_string(f) ==
    IF ~f.exists THEN Err("Read", <<"NotFound">>)
    ELSE IF ~f.readable THEN Err("Read", <<"PermissionDenied">>)
    ELSE Ok(f.text)

\* A file of no bytes: an empty TOML document, and no JSON document.
ZeroBytes(T) == IF T = "HourLog" THEN {Torn} ELSE {}

\* fs::write: File::create, which truncates, then write_all.
fs_write(T, f, s) ==
    CASE f.write = "ok" ->
            [res |-> Ok(Unit), file |-> [f EXCEPT !.exists = TRUE, !.text = s]]
      [] f.write = "denied" ->
            [res |-> Err("Write", <<"PermissionDenied">>), file |-> f]
      [] f.write = "truncated" ->
            [res |-> Err("Write", <<"StorageFull">>),
             file |-> [f EXCEPT !.exists = TRUE, !.text = ZeroBytes(T)]]
      [] f.write = "torn" ->
            [res |-> Err("Write", <<"Interrupted">>),
             file |-> [f EXCEPT !.exists = TRUE, !.text = {Torn}]]

(***************************************************************************)
(* trait Crud                                                              *)
(***************************************************************************)
path(T, dir) == IF dir THEN Ok(FILE(T)) ELSE Err("Env", <<"BOOKIT_DIR">>)

file_content(T, dir, f) ==
    LET p == path(T, dir)
    IN  IF p.tag = "Err" THEN p ELSE read_to_string(f)

\* Mutant: text that does not decode is taken to be the empty collection.
mapping_corrupt_as_empty(T, dir, f) ==
    LET content == file_content(T, dir, f)
        map == deserialize(T, content.val)
    IN  IF content.tag = "Err" THEN content
        ELSE IF map.tag = "Err" THEN Ok(EmptyMap) ELSE map

mapping(T, dir, f) ==
    LET content == file_content(T, dir, f)
    IN  IF content.tag = "Err" THEN content ELSE deserialize(T, content.val)

\* The outcome of a mutating call: its result, the file after it, and whether
\* fs::write was called.
Outcome(res, f, wrote) == [res |-> res, file |-> f, wrote |-> wrote]

\* Mutant: the encoded collection is never written.
commit_map_not_written(T, dir, f, map) ==
    LET s == serialize(T, map)
        p == path(T, dir)
    IN  IF s.tag = "Err" THEN Outcome(s, f, FALSE)
        ELSE IF p.tag = "Err" THEN Outcome(p, f, FALSE)
        ELSE Outcome(Ok(Unit), f, FALSE)

commit_map(T, dir, f, map) ==
    LET s == serialize(T, map)
        p == path(T, dir)
    IN  IF s.tag = "Err" THEN Outcome(s, f, FALSE)
        ELSE IF p.tag = "Err" THEN Outcome(p, f, FALSE)
        ELSE LET w == fs_write(T, f, s.val)
             IN  Outcome(w.res, w.file, TRUE)

\* Mutant: the expectation on the slug is not compared with the collection.
write_ok_unchecked(T, dir, f, slug, slug_expect) ==
    LET map == mapping(T, dir, f)
    IN  IF map.tag = "Err" THEN map ELSE Ok(Unit)

write_ok(T, dir, f, slug, slug_expect) ==
    LET map == mapping(T, dir, f)
    IN  IF map.tag = "Err" THEN map
        ELSE IF slug_expect = contains_key(map.val, slug) THEN Ok(Unit)
        ELSE IF slug_expect
             THEN Err("CmdError", <<"item with slug", slug, "was not found">>)
        ELSE Err("CmdError", <<"item with slug", slug, "already exists">>)

\* Mutant: the record is stored under a key taken from the size of the
\* collection, not from the record.
add_keyed_by_position(T, dir, f, self) ==
    LET slug == identifier(T, self)
        ok == write_ok(T, dir, f, slug, FALSE)
        map == mapping(T, dir, f)
    IN  IF ok.tag = "Err" THEN Outcome(ok, f, FALSE)
        ELSE IF map.tag = "Err" THEN Outcome(map, f, FALSE)
        ELSE commit_map(T, dir, f,
                 insert(map.val,
                        SlugNames[(Cardinality(DOMAIN map.val) % NumSlugs) + 1], self))

add(T, dir, f, self) ==
    LET slug == identifier(T, self)
        ok == write_ok(T, dir, f, slug, FALSE)
        map == mapping(T, dir, f)
    IN  IF ok.tag = "Err" THEN Outcome(ok, f, FALSE)
        ELSE IF map.tag = "Err" THEN Outcome(map, f, FALSE)
        ELSE commit_map(T, dir, f, insert(map.val, identifier(T, self), self))

\* Mutant: the entry is not removed before the commit.
delete_not_removed(T, dir, f, self) ==
    LET slug == identifier(T, self)
        ok == write_ok(T, dir, f, slug, TRUE)
        map == mapping(T, dir, f)
    IN  IF ok.tag = "Err" THEN Outcome(ok, f, FALSE)
        ELSE IF map.tag = "Err" THEN Outcome(map, f, FALSE)
        ELSE commit_map(T, dir, f, map.val)

delete(T, dir, f, self) ==
    LET slug == identifier(T, self)
        ok == write_ok(T, dir, f, slug, TRUE)
        map == mapping(T, dir, f)
    IN  IF ok.tag = "Err" THEN Outcome(ok, f, FALSE)
        ELSE IF map.tag = "Err" THEN Outcome(map, f, FALSE)
        ELSE commit_map(T, dir, f, remove(map.val, slug))

\* Mutant: the record is written whether or not its slug exists (an upsert).
overwrite_upsert(T, dir, f, self) ==
    LET slug == identifier(T, self)
        map == mapping(T, dir, f)
    IN  IF map.tag = "Err" THEN Outcome(map, f, FALSE)
        ELSE commit_map(T, dir, f, insert(remove(map.val, slug), slug, self))

\* Mutant: the old entry is removed and the new one is not inserted.
overwrite_remove_only(T, dir, f, self) ==
    LET slug == identifier(T, self)
        ok == write_ok(T, dir, f, slug, TRUE)
        map == mapping(T, dir, f)
    IN  IF ok.tag = "Err" THEN Outcome(ok, f, FALSE)
        ELSE IF map.tag = "Err" THEN Outcome(map, f, FALSE)
        ELSE commit_map(T, dir, f, remove(map.val, slug))

\* Mutant: the record is put back under the key of another slug.
overwrite_under_other_key(T, dir, f, self) ==
    LET slug == identifier(T, self)
        ok == write_ok(T, dir, f, slug, TRUE)
        map == mapping(T, dir, f)
        other == IF slug = SlugNames[1] THEN SlugNames[2] ELSE SlugNames[1]
    IN  IF ok.tag = "Err" THEN Outcome(ok, f, FALSE)
        ELSE IF map.tag = "Err" THEN Outcome(map, f, FALSE)
        ELSE commit_map(T, dir, f, insert(remove(map.val, slug), other, self))

overwrite(T, dir, f, self) ==
    LET slug == identifier(T, self)
        ok == write_ok(T, dir, f, slug, TRUE)
        map == mapping(T, dir, f)
    IN  IF ok.tag = "Err" THEN Outcome(ok, f, FALSE)
        ELSE IF map.tag = "Err" THEN Outcome(map, f, FALSE)
        ELSE commit_map(T, dir, f, insert(remove(map.val, slug), slug, self))

\* The number of slugs after which the list of a retrieve error is cut.
TruncateAt == 10

\* The keys of the mapping. The Vec holds them in the iteration order of the
\* HashMap, which is arbitrary: only the set is kept.
available_slugs(map) == DOMAIN map

\* The sets of slugs a slice existing[0..n] can hold, over all orders of existing.
first_n(existing, n) == {S \in SUBSET existing : Cardinality(S) = n}

\* Mutant: the list is never cut.
listings_untruncated(existing) ==
    {[named |-> existing, suffix |-> ""]}

\* match existing.len(): the slugs named in the message and its suffix.
listings(existing) ==
    IF Cardinality(existing) <= TruncateAt
    THEN {[named |-> existing, suffix |-> ""]}
    ELSE {[named |-> S, suffix |-> "(output truncated...)"] :
             S \in first_n(existing, TruncateAt)}

\* The results retrieve can return: one, but for the slugs named when the list
\* of a miss is cut.
retrieve(T, dir, f, slug) ==
    LET map == mapping(T, dir, f)
    IN  IF map.tag = "Err" THEN {map}
        ELSE IF contains_key(map.val, slug) THEN {Ok(map.val[slug])}
        ELSE {Err("CmdError",
                  <<slug, "not found. Available values are:", l.named, l.suffix>>) :
                 l \in listings(available_slugs(map.val))}

\* Mutant: the updated record is given the slug of another record.
interactive_update_other_slug(T, self, v) ==
    LET other(slug) == IF slug = SlugNames[1] THEN SlugNames[2] ELSE SlugNames[1]
    IN  CASE T = "Contractor" -> [slug |-> other(self.slug), name |-> Names[v]]
          [] T = "Alias" ->
                [slug |-> other(self.slug), contractor |-> SlugNames[v],
                 short_description |-> Names[v], hourly_rate |-> 10 * v]
          [] T = "HourLog" -> [self EXCEPT !.id = other(self.id)]

\* The answers typed at the prompts are the field values of variant v.
interactive_update(T, self, v) ==
    CASE T = "Contractor" -> [slug |-> self.slug, name |-> Names[v]]
      [] T = "Alias" ->
            [slug |-> self.slug, contractor |-> SlugNames[v],
             short_description |-> Names[v], hourly_rate |-> 10 * v]
      [] T = "HourLog" -> self

(***************************************************************************)
(* trait ConfigCrud (src/src/config.rs), implemented for Contractor and    *)
(* Alias over the same files as Crud. Its methods return no Result: they   *)
(* panic.                                                                  *)
(***************************************************************************)
ConfigEntities == {"Contractor", "Alias"}

\* The process is terminated with the message msg.
Panic(msg) == [tag |-> "Panic", msg |-> msg]

config_path(T, dir) ==
    IF dir THEN Ok(FILE(T)) ELSE Panic("No BOOKIT_DIR specified in environment")

config_file_content(T, dir, f) ==
    LET p == config_path(T, dir)
        r == read_to_string(f)
    IN  IF p.tag = "Panic" THEN p
        ELSE IF r.tag = "Ok" THEN Ok(Some(r.val))
        ELSE Ok(None)

config_mapping(T, dir, f) ==
    LET content == config_file_content(T, dir, f)
    IN  IF content.tag = "Panic" THEN content
        ELSE IF content.val.some
        THEN LET map == deserialize(T, content.val.v)
             IN  IF map.tag = "Ok" THEN map
                 ELSE Panic("Unable to deserialize object, file might be corrupt")
        ELSE Ok(EmptyMap)

config_commit_map(T, dir, f, map) ==
    LET s == serialize(T, map)
        p == config_path(T, dir)
    IN  IF s.tag = "Err" THEN Outcome(Panic("Unknown error"), f, FALSE)
        ELSE IF p.tag = "Panic" THEN Outcome(p, f, FALSE)
        ELSE LET w == fs_write(T, f, s.val)
             IN  IF w.res.tag = "Ok" THEN Outcome(Ok(Unit), w.file, TRUE)
                 ELSE Outcome(Panic("Unable to write to file"), w.file, TRUE)

config_exists(T, dir, f, slug) ==
    LET map == config_mapping(T, dir, f)
    IN  IF map.tag = "Panic" THEN map ELSE Ok(contains_key(map.val, slug))

config_add(T, dir, f, self) ==
    LET slug == identifier(T, self)
        exists == config_exists(T, dir, f, slug)
        map == config_mapping(T, dir, f)
    IN  IF exists.tag = "Panic" THEN Outcome(exists, f, FALSE)
        ELSE IF exists.val
        THEN Outcome(Panic("Object with given slug already exists"), f, FALSE)
        ELSE IF map.tag = "Panic" THEN Outcome(map, f, FALSE)
        ELSE config_commit_map(T, dir, f, insert(map.val, identifier(T, self), self))

config_delete(T, dir, f, self) ==
    LET slug == identifier(T, self)
        exists == config_exists(T, dir, f, slug)
        map == config_mapping(T, dir, f)
    IN  IF exists.tag = "Panic" THEN Outcome(exists, f, FALSE)
        ELSE IF ~exists.val
        THEN Outcome(Panic("Object with given slug does not exist"), f, FALSE)
        ELSE IF map.tag = "Panic" THEN Outcome(map, f, FALSE)
        ELSE config_commit_map(T, dir, f, remove(map.val, slug))

config_overwrite(T, dir, f, self) ==
    LET slug == identifier(T, self)
        exists == config_exists(T, dir, f, slug)
        map == config_mapping(T, dir, f)
    IN  IF exists.tag = "Panic" THEN Outcome(exists, f, FALSE)
        ELSE IF ~exists.val
        THEN Outcome(Panic("Object with given slug does not exist"), f, FALSE)
        ELSE IF map.tag = "Panic" THEN Outcome(map, f, FALSE)
        ELSE config_commit_map(T, dir, f, insert(remove(map.val, slug), slug, self))

config_retrieve(T, dir, f, slug) ==
    LET map == config_mapping(T, dir, f)
    IN  IF map.tag = "Panic" THEN map
        ELSE IF contains_key(map.val, slug) THEN Ok(map.val[slug])
        ELSE Panic("Object does not exist")

(***************************************************************************)
(* Command handlers over the store                                         *)
(***************************************************************************)
add_subject(T, dir, f, obj) == add(T, dir, f, obj)

\* The outcomes of the handler, one for each result retrieve can return.
\* prompted: whether interactive_update was reached and asked for input
\* (the one of HourLog clones the record and asks nothing).
update_subject(T, dir, f, obj_slug, v) ==
    {IF obj.tag = "Err"
     THEN [res |-> obj, file |-> f, wrote |-> FALSE, prompted |-> FALSE]
     ELSE LET o == overwrite(T, dir, f, interactive_update(T, obj.val, v))
          IN  [res |-> o.res, file |-> o.file, wrote |-> o.wrote,
               prompted |-> T # "HourLog"] :
        obj \in retrieve(T, dir, f, obj_slug)}

delete_subject(T, dir, f, obj_slug) ==
    {IF obj.tag = "Err" THEN Outcome(obj, f, FALSE)
     ELSE delete(T, dir, f, obj.val) :
        obj \in retrieve(T, dir, f, obj_slug)}

\* The book command for the HourLog built from its arguments: added is the
\* value add_subject returned, res the value exec_cmd_book returns.
exec_cmd_book(dir, f, hours) ==
    LET o == add_subject("HourLog", dir, f, hours)
    IN  [res |-> Ok(Unit), file |-> o.file, wrote |-> o.wrote, added |-> o.res]

(***************************************************************************)
(* trait Filter                                                            *)
(***************************************************************************)
NoFilter == [f |-> "NoFilter", arg |-> ""]
ByAlias(a) == [f |-> "ByAlias", arg |-> a]
ByContractor(c) == [f |-> "Contractor", arg |-> c]

NoSort == "NoSort"
ByTimestamp == "ByTimestamp"

\* The values the fields alias / contractor take in Records(T).
FieldValues == {SlugNames[v] : v \in Variants}

Filters(T) ==
    CASE T = "Contractor" -> {NoFilter}
      [] T = "Alias" -> {NoFilter} \cup {ByContractor(c) : c \in FieldValues}
      [] T = "HourLog" -> {NoFilter} \cup {ByAlias(a) : a \in FieldValues}

Sorts(T) == IF T = "HourLog" THEN {NoSort, ByTimestamp} ELSE {NoSort}

filter(T, items, method) ==
    CASE T = "Contractor" -> items
      [] T = "Alias" ->
            IF method.f = "NoFilter" THEN items
            ELSE SelectSeq(items, LAMBDA item : item.contractor = method.arg)
      [] T = "HourLog" ->
            IF method.f = "NoFilter" THEN items
            ELSE SelectSeq(items, LAMBDA item : item.alias = method.arg)

\* Mutant: a record is put before the records of the same timestamp.
RECURSIVE sort_by_timestamp_desc_unstable(_)
sort_by_timestamp_desc_unstable(items) ==
    IF Len(items) <= 1 THEN items
    ELSE LET n == Len(items)
             front == sort_by_timestamp_desc_unstable(SubSeq(items, 1, n - 1))
             x == items[n]
             keep == {i \in 1..(n - 1) : front[i].timestamp > x.timestamp}
             k == IF keep = {} THEN 0 ELSE CHOOSE i \in keep : \A j \in keep : j <= i
         IN  SubSeq(front, 1, k) \o <<x>> \o SubSeq(front, k + 1, n - 1)

\* slice::sort_by(|a, b| b.timestamp.cmp(&a.timestamp)): stable, newest first.
RECURSIVE sort_by_timestamp_desc(_)
sort_by_timestamp_desc(items) ==
    IF Len(items) <= 1 THEN items
    ELSE LET n == Len(items)
             front == sort_by_timestamp_desc(SubSeq(items, 1, n - 1))
             x == items[n]
             keep == {i \in 1..(n - 1) : front[i].timestamp >= x.timestamp}
             k == IF keep = {} THEN 0 ELSE CHOOSE i \in keep : \A j \in keep : j <= i
         IN  SubSeq(front, 1, k) \o <<x>> \o SubSeq(front, k + 1, n - 1)

\* Mutant: HourLog sorts by timestamp whatever the method.
sort_ignores_method(T, items, method) ==
    IF T = "HourLog" THEN sort_by_timestamp_desc(items) ELSE items

sort(T, items, method) ==
    IF T = "HourLog" /\ method = ByTimestamp
    THEN sort_by_timestamp_desc(items)
    ELSE items

\* Mutant: the match has no arm for an empty items.
filterset_arm_no_empty_arm(items, filters) ==
    IF Len(filters) = 0 THEN "Ok" ELSE "Recurse"

\* The arm of the match on (items.len(), filters.len()) that is taken.
filterset_arm(items, filters) ==
    IF Len(items) = 0 THEN "Err"
    ELSE IF Len(filters) = 0 THEN "Ok"
    ELSE "Recurse"

\* res is the value returned; invoked lists the filters Self::filter was
\* called with, in call order.
RECURSIVE apply_filterset(_, _, _)
apply_filterset(T, items, filters) ==
    LET arm == filterset_arm(items, filters)
    IN  IF arm = "Err" THEN [res |-> Err("FilterNoResults", <<>>), invoked |-> <<>>]
        ELSE IF arm = "Ok" THEN [res |-> Ok(items), invoked |-> <<>>]
        ELSE LET head == Head(filters)
                 tail == Tail(filters)
                 rest == apply_filterset(T, filter(T, items, head), tail)
             IN  [res |-> rest.res, invoked |-> <<head>> \o rest.invoked]

\* The orders in which HashMap::values() may yield the records of map.
ValueOrders(map) ==
    LET keys == DOMAIN map
        n == Cardinality(keys)
    IN  {[i \in 1..n |-> map[ord[i]]] :
            ord \in {o \in [1..n -> keys] : \A i, j \in 1..n : i # j => o[i] # o[j]}}

\* get_base_items: every order of the values is a possible result.
get_base_items(T, dir, f) ==
    LET map == mapping(T, dir, f)
    IN  IF map.tag = "Err" THEN {map} ELSE {Ok(items) : items \in ValueOrders(map.val)}

\* view_filtered_set, given the items get_base_items returned; the value of Ok
\* is the list printed.
view_filtered_set(T, base, filters, sort_method) ==
    IF base.tag = "Err" THEN base
    ELSE LET items == apply_filterset(T, base.val, filters).res
         IN  IF items.tag = "Err" THEN items
             ELSE Ok(sort(T, items.val, sort_method))

(***************************************************************************)
(* Bounded inputs                                                          *)
(***************************************************************************)
SeqsUpTo(S, n) == UNION {[1..k -> S] : k \in 0..n}

(***************************************************************************)
(* State machine of the store                                              *)
(***************************************************************************)
NoCall == [op |-> "none"]

Init ==
    /\ entity \in Entities
    /\ bookit_dir \in BOOLEAN
    /\ file \in {NoFile, FileWith({})}
    /\ last = NoCall
    /\ procs = <<>>

Call(op, r, slug, o) ==
    /\ file' = o.file
    /\ last' = [op |-> op, rec |-> r, slug |-> slug,
                res |-> o.res, wrote |-> o.wrote, pre |-> file]
    /\ UNCHANGED <<entity, bookit_dir, procs>>

Load ==
    Call("mapping", <<>>, "", Outcome(mapping(entity, bookit_dir, file), file, FALSE))

Retrieve(slug) ==
    \E res \in retrieve(entity, bookit_dir, file, slug) :
        Call("retrieve", <<>>, slug, Outcome(res, file, FALSE))

Add(r) ==
    Call("add", r, identifier(entity, r), add_subject(entity, bookit_dir, file, r))

Delete(r) ==
    Call("delete", r, identifier(entity, r), delete(entity, bookit_dir, file, r))

Overwrite(r) ==
    Call("overwrite", r, identifier(entity, r), overwrite(entity, bookit_dir, file, r))

UpdateSubject(slug, v) ==
    \E o \in update_subject(entity, bookit_dir, file, slug, v) :
        /\ file' = o.file
        /\ last' = [op |-> "update_subject", rec |-> <<>>, slug |-> slug,
                    res |-> o.res, wrote |-> o.wrote, pre |-> file,
                    prompted |-> o.prompted]
        /\ UNCHANGED <<entity, bookit_dir, procs>>

DeleteSubject(slug) ==
    \E o \in delete_subject(entity, bookit_dir, file, slug) :
        Call("delete_subject", <<>>, slug, o)

ConfigRetrieve(slug) ==
    /\ entity \in ConfigEntities
    /\ Call("config_retrieve", <<>>, slug,
            Outcome(config_retrieve(entity, bookit_dir, file, slug), file, FALSE))

ConfigAdd(r) ==
    /\ entity \in ConfigEntities
    /\ Call("config_add", r, identifier(entity, r),
            config_add(entity, bookit_dir, file, r))

ConfigDelete(r) ==
    /\ entity \in ConfigEntities
    /\ Call("config_delete", r, identifier(entity, r),
            config_delete(entity, bookit_dir, file, r))

ConfigOverwrite(r) ==
    /\ entity \in ConfigEntities
    /\ Call("config_overwrite", r, identifier(entity, r),
            config_overwrite(entity, bookit_dir, file, r))

ExecCmdBook(hours) ==
    /\ entity = "HourLog"
    /\ LET o == exec_cmd_book(bookit_dir, file, hours)
       IN  /\ file' = o.file
           /\ last' = [op |-> "exec_cmd_book", rec |-> hours, slug |-> hours.id,
                       res |-> o.res, wrote |-> o.wrote, pre |-> file,
                       added |-> o.added]
    /\ UNCHANGED <<entity, bookit_dir, procs>>

Next ==
    \/ Load
    \/ \E slug \in Slugs : Retrieve(slug)
    \/ \E r \in Records(entity) : Add(r)
    \/ \E r \in Records(entity) : Delete(r)
    \/ \E r \in Records(entity) : Overwrite(r)
    \/ \E slug \in Slugs, v \in Variants : UpdateSubject(slug, v)
    \/ \E slug \in Slugs : DeleteSubject(slug)
    \/ \E hours \in Records("HourLog") : ExecCmdBook(hours)
    \/ \E r \in Records(entity) : ConfigAdd(r)
    \/ \E r \in Records(entity) : ConfigDelete(r)
    \/ \E r \in Records(entity) : ConfigOverwrite(r)

Spec == Init /\ [][Next]_vars

(***************************************************************************)
(* The filter pipeline over bounded inputs                                 *)
(***************************************************************************)
\* Sequences of records with pairwise distinct identifiers, as the values of a
\* mapping are: the i-th item has the i-th slug.
ItemSeqs(T) ==
    UNION {{[i \in 1..k |-> Rec(T, SlugNames[i], vs[i])] : vs \in [1..k -> Variants]} :
              k \in 0..MaxItems}

\* The collection whose values are items, keyed by identifier, and the file
\* that holds it.
MapOf(T, items) ==
    [k \in {identifier(T, items[i]) : i \in DOMAIN items} |->
        items[CHOOSE i \in DOMAIN items : identifier(T, items[i]) = k]]

FileOf(T, items) == FileWith(serialize(T, MapOf(T, items)).val)

InitFilter ==
    /\ entity \in Entities
    /\ bookit_dir = TRUE
    /\ \E items \in ItemSeqs(entity),
          filters \in SeqsUpTo(Filters(entity), MaxFilters) :
            /\ file = FileOf(entity, items)
            /\ last = [op |-> "input", items |-> items, filters |-> filters]
    /\ procs = <<>>

ApplyFilterset ==
    /\ last.op = "input"
    /\ LET o == apply_filterset(entity, last.items, last.filters)
       IN  last' = [op |-> "apply_filterset", items |-> last.items,
                    filters |-> last.filters, res |-> o.res, invoked |-> o.invoked]
    /\ UNCHANGED <<entity, bookit_dir, file, procs>>

\* The Show command on the stored collection, for chains of at most
\* MaxViewFilters filters.
ViewFilteredSet(sort_method) ==
    /\ last.op = "input"
    /\ Len(last.filters) <= MaxViewFilters
    /\ \E base \in get_base_items(entity, bookit_dir, file) :
          last' = [op |-> "view_filtered_set", items |-> last.items,
                   filters |-> last.filters, sort |-> sort_method, base |-> base,
                   res |-> view_filtered_set(entity, base, last.filters, sort_method)]
    /\ UNCHANGED <<entity, bookit_dir, file, procs>>

Sort(method) ==
    /\ last.op = "input"
    /\ last' = [op |-> "sort", items |-> last.items, sort |-> method,
                res |-> sort(entity, last.items, method)]
    /\ UNCHANGED <<entity, bookit_dir, file, procs>>

\* The collection of the items is encoded and the text decoded again.
SerializeDeserialize ==
    /\ last.op = "input"
    /\ LET map == MapOf(entity, last.items)
           s == serialize(entity, map)
       IN  last' = [op |-> "serialize_deserialize", items |-> last.items,
                    map |-> map,
                    res |-> IF s.tag = "Err" THEN s ELSE deserialize(entity, s.val)]
    /\ UNCHANGED <<entity, bookit_dir, file, procs>>

NextFilter ==
    \/ ApplyFilterset
    \/ SerializeDeserialize
    \/ \E method \in Sorts(entity) : Sort(method)
    \/ \E sort_method \in Sorts(entity) : ViewFilteredSet(sort_method)

SpecFilter == InitFilter /\ [][NextFilter]_vars

(***************************************************************************)
(* retrieve over collections of up to MaxSlugs records                     *)
(***************************************************************************)
ManySlugs == {SlugNames[i] : i \in 1..MaxSlugs}

\* A slug no collection holds.
Stranger == SlugNames[MaxSlugs + 1]

\* The file that holds one record for each slug of keys.
FileOfSlugs(T, keys) ==
    FileWith(serialize(T, [k \in keys |-> Rec(T, k, 1)]).val)

\* The collections retrieve is called on: the small ones, and those whose size
\* is around TruncateAt.
KeySets ==
    {keys \in SUBSET ManySlugs :
        Cardinality(keys) <= 1 \/ Cardinality(keys) >= TruncateAt - 1}

InitRetrieve ==
    /\ entity \in Entities
    /\ bookit_dir = TRUE
    /\ \E keys \in KeySets : file = FileOfSlugs(entity, keys)
    /\ last = NoCall
    /\ procs = <<>>

RetrieveOnce(slug) ==
    /\ last.op = "none"
    /\ Retrieve(slug)

NextRetrieve == \E slug \in ManySlugs \cup {Stranger} : RetrieveOnce(slug)

SpecRetrieve == InitRetrieve /\ [][NextRetrieve]_vars

(***************************************************************************)
(* One call of a method of Crud or ConfigCrud on a file that may be        *)
(* corrupt, unreadable or unwritable                                       *)
(***************************************************************************)
\* The collections over Slugs: each key is the identifier of its record.
Collections(T) ==
    UNION {{[k \in keys |-> Rec(T, k, vs[k])] : vs \in [keys -> Variants]} :
              keys \in SUBSET Slugs}

Texts(T) == {serialize(T, map).val : map \in Collections(T)}

\* The file is missing, or holds a collection, or holds one followed by text
\* that does not parse, or holds one and cannot be read or cannot be written.
FaultFiles(T) ==
    {NoFile}
        \cup {FileWith(t) : t \in Texts(T)}
        \cup {FileWith(t \cup {Torn}) : t \in Texts(T)}
        \cup {[FileWith(t) EXCEPT !.readable = FALSE] : t \in Texts(T)}
        \cup {[FileWith(t) EXCEPT !.write = w] : t \in Texts(T), w \in WriteFaults}

InitFault ==
    /\ entity \in Entities
    /\ bookit_dir \in BOOLEAN
    /\ file \in FaultFiles(entity)
    /\ ~bookit_dir => (file = NoFile \/ \E t \in Texts(entity) : file = FileWith(t))
    /\ last = NoCall
    /\ procs = <<>>

NextFault ==
    /\ last.op = "none"
    /\ \/ Load
       \/ \E slug \in Slugs : Retrieve(slug)
       \/ \E r \in Records(entity) : Add(r)
       \/ \E r \in Records(entity) : Delete(r)
       \/ \E r \in Records(entity) : Overwrite(r)
       \/ \E slug \in Slugs : ConfigRetrieve(slug)
       \/ \E r \in Records(entity) : ConfigAdd(r)
       \/ \E r \in Records(entity) : ConfigDelete(r)
       \/ \E r \in Records(entity) : ConfigOverwrite(r)

SpecFault == InitFault /\ [][NextFault]_vars

(***************************************************************************)
(* Two processes, each running add, delete or overwrite of Crud. A step of *)
(* a process is one access to the file: the read of write_ok, the read of  *)
(* mapping, and the two halves of fs::write in commit_map, File::create    *)
(* (which truncates) and write_all.                                        *)
(***************************************************************************)
Procs == {1, 2}

Other(i) == 3 - i

Pending == [tag |-> "Pending"]

\* The expectation write_ok is called with, and the change made to the mapping.
slug_expect(op) == op # "add"

mutate(T, op, map, self) ==
    LET slug == identifier(T, self)
    IN  CASE op = "add" -> insert(map, slug, self)
          [] op = "delete" -> remove(map, slug)
          [] op = "overwrite" -> insert(remove(map, slug), slug, self)

Proc(op, self) ==
    [op |-> op, rec |-> self, pc |-> "write_ok", map |-> EmptyMap, text |-> {},
     res |-> Pending, late |-> FALSE, after |-> FALSE]

\* The files the processes start on: collections of at most one record.
RaceFiles(T) ==
    {FileWith(serialize(T, map).val) :
        map \in {m \in Collections(T) : Cardinality(DOMAIN m) <= 1}}

InitRace ==
    /\ entity \in Entities
    /\ bookit_dir = TRUE
    /\ file \in RaceFiles(entity)
    /\ last = [op |-> "race", pre |-> file, writer |-> 0, overlapped |-> FALSE]
    /\ \E r1, r2 \in Records(entity), op2 \in {"add", "delete", "overwrite"} :
          procs = <<Proc("add", r1), Proc(op2, r2)>>

\* The other process is between File::create and write_all.
OtherWrites(i) == procs[Other(i)].pc = "write_all"

\* Mutant: the process goes on to its second read without the check.
StepWriteOk_without_check(i) ==
    /\ procs[i].pc = "write_ok"
    /\ procs' = [procs EXCEPT ![i].pc = "mapping",
                              ![i].late = procs[Other(i)].pc \in {"write_all", "done"},
                              ![i].after = procs[Other(i)].pc = "done"]
    /\ last' = [last EXCEPT !.overlapped = @ \/ OtherWrites(i)]
    /\ UNCHANGED <<entity, bookit_dir, file>>

\* late: the other process had begun to write; after: it had returned.
StepWriteOk(i) ==
    /\ procs[i].pc = "write_ok"
    /\ LET me == procs[i]
           ok == write_ok(entity, bookit_dir, file, identifier(entity, me.rec),
                          slug_expect(me.op))
           late == procs[Other(i)].pc \in {"write_all", "done"}
           after == procs[Other(i)].pc = "done"
       IN  procs' = [procs EXCEPT ![i] =
                        IF ok.tag = "Err"
                        THEN [me EXCEPT !.pc = "done", !.res = ok, !.late = late,
                                        !.after = after]
                        ELSE [me EXCEPT !.pc = "mapping", !.late = late,
                                        !.after = after]]
    /\ last' = [last EXCEPT !.overlapped = @ \/ OtherWrites(i)]
    /\ UNCHANGED <<entity, bookit_dir, file>>

StepMapping(i) ==
    /\ procs[i].pc = "mapping"
    /\ LET me == procs[i]
           map == mapping(entity, bookit_dir, file)
       IN  procs' = [procs EXCEPT ![i] =
                        IF map.tag = "Err"
                        THEN [me EXCEPT !.pc = "done", !.res = map]
                        ELSE [me EXCEPT !.pc = "create", !.map = map.val,
                                        !.text = serialize(entity,
                                                     mutate(entity, me.op, map.val,
                                                            me.rec)).val]]
    /\ last' = [last EXCEPT !.overlapped = @ \/ OtherWrites(i)]
    /\ UNCHANGED <<entity, bookit_dir, file>>

StepCreate(i) ==
    /\ procs[i].pc = "create"
    /\ file' = [file EXCEPT !.exists = TRUE, !.text = ZeroBytes(entity)]
    /\ procs' = [procs EXCEPT ![i].pc = "write_all"]
    /\ last' = [last EXCEPT !.overlapped = @ \/ OtherWrites(i)]
    /\ UNCHANGED <<entity, bookit_dir>>

\* write_all writes from the start of the file; when the other process wrote
\* after this one truncated, the end of a longer text of the other is left.
StepWriteAll(i) ==
    /\ procs[i].pc = "write_all"
    /\ \E t \in (IF file.text \in {ZeroBytes(entity), procs[i].text}
                 THEN {procs[i].text}
                 ELSE {procs[i].text, procs[i].text \cup {Torn}}) :
          file' = [file EXCEPT !.text = t]
    /\ procs' = [procs EXCEPT ![i].pc = "done", ![i].res = Ok(Unit)]
    /\ last' = [last EXCEPT !.writer = i]
    /\ UNCHANGED <<entity, bookit_dir>>

NextRace ==
    \E i \in Procs :
        \/ StepWriteOk(i)
        \/ StepMapping(i)
        \/ StepCreate(i)
        \/ StepWriteAll(i)

SpecRace == InitRace /\ [][NextRace]_vars

(***************************************************************************)
(* The time and date arguments of the book commands                        *)
(***************************************************************************)
\* A NaiveTime, as the seconds since midnight.
NaiveTime(h, m, sec) == (h * 60 + m) * 60 + sec

\* The text "HH:MM" is kept as its two numbers, which may be out of range.
parse_time(time_str) ==
    IF time_str.hh \in 0..23 /\ time_str.mm \in 0..59
    THEN Ok(NaiveTime(time_str.hh, time_str.mm, 0))
    ELSE Err("Parse", <<"value should be formatted to HH:MM">>)

\* Duration::num_minutes of a duration of n seconds: the quotient is truncated
\* towards zero.
num_minutes(n) == IF n >= 0 THEN n \div 60 ELSE 0 - ((0 - n) \div 60)

\* The cast `as u32` of an i64 keeps the low 32 bits: the value modulo 2^32,
\* written as its high and low 16 bits.
as_u32(n) == [hi |-> (n \div 65536) % 65536, lo |-> n % 65536]

\* interpret_time on "s::HH:MM", "t::HH:MM", "<minutes>" and on text with
\* another directive; now is the local time of day.
interpret_time(now, arg) ==
    CASE arg.directive = "s" ->
            LET t == parse_time(arg.time)
            IN  IF t.tag = "Err" THEN t ELSE Ok(as_u32(num_minutes(now - t.val)))
      [] arg.directive = "t" ->
            LET t == parse_time(arg.time)
            IN  IF t.tag = "Err" THEN t ELSE Ok(as_u32(num_minutes(t.val - now)))
      [] arg.directive = "" -> Ok(as_u32(arg.minutes))
      [] OTHER -> Err("CmdError", <<"unable to interpret time">>)

\* A NaiveDate, as its year and its day of the year (from 1).
NaiveDate(y, o) == [year |-> y, ordinal |-> o]

is_leap_year(y) == y % 4 = 0 /\ (y % 100 # 0 \/ y % 400 = 0)

ndays(y) == IF is_leap_year(y) THEN 366 ELSE 365

\* Days since the last day of the year 0 (0001-01-01, a Monday, is day 1).
num_days_from_ce(d) ==
    LET y == d.year - 1
    IN  365 * y + (y \div 4) - (y \div 100) + (y \div 400) + d.ordinal

\* Datelike::weekday().num_days_from_monday(): Monday is 0, Sunday is 6.
num_days_from_monday(d) == (num_days_from_ce(d) - 1) % 7

\* NaiveDate::pred.
pred(d) ==
    IF d.ordinal > 1 THEN NaiveDate(d.year, d.ordinal - 1)
    ELSE NaiveDate(d.year - 1, ndays(d.year - 1))

\* The day of year y (possibly below 1) on which its first ISO week starts:
\* the Monday of the week that holds the first Thursday of the year.
week1_monday(y) ==
    LET j == num_days_from_monday(NaiveDate(y, 1))
    IN  IF j <= 3 THEN 1 - j ELSE 8 - j

\* The number of ISO weeks of year y.
nisoweeks(y) == (week1_monday(y + 1) + ndays(y) - week1_monday(y)) \div 7

\* Datelike::iso_week(): the ISO year and week that hold the date.
iso_week(d) ==
    CASE d.ordinal < week1_monday(d.year) ->
            [year |-> d.year - 1, week |-> nisoweeks(d.year - 1)]
      [] d.ordinal >= week1_monday(d.year + 1) + ndays(d.year) ->
            [year |-> d.year + 1, week |-> 1]
      [] OTHER ->
            [year |-> d.year,
             week |-> ((d.ordinal - week1_monday(d.year)) \div 7) + 1]

\* NaiveDate::from_isoywd: the date of the weekday (from Monday = 0) of ISO
\* week `week` of ISO year y; it panics when the year has no such week.
from_isoywd(y, week, day) ==
    LET o == week1_monday(y) + (week - 1) * 7 + day
    IN  CASE ~(week \in 1..nisoweeks(y)) -> Panic("invalid or out-of-range date")
          [] o < 1 -> NaiveDate(y - 1, o + ndays(y - 1))
          [] o > ndays(y) -> NaiveDate(y + 1, o - ndays(y))
          [] OTHER -> NaiveDate(y, o)

\* str::parse::<Weekday>: the short and the long English names, in any case.
WeekdayNames ==
    <<{"mon", "monday"}, {"tue", "tuesday"}, {"wed", "wednesday"},
      {"thu", "thursday"}, {"fri", "friday"}, {"sat", "saturday"},
      {"sun", "sunday"}>>

parse_weekday(word) ==
    IF \E i \in 1..Len(WeekdayNames) : word \in WeekdayNames[i]
    THEN Ok((CHOOSE i \in 1..Len(WeekdayNames) : word \in WeekdayNames[i]) - 1)
    ELSE Err("ParseWeekdayError", <<word>>)

\* The days before month m of a year.
RECURSIVE days_before_month(_, _)
mdays(y, m) ==
    CASE m = 2 -> IF is_leap_year(y) THEN 29 ELSE 28
      [] m \in {4, 6, 9, 11} -> 30
      [] OTHER -> 31

days_before_month(y, m) ==
    IF m <= 1 THEN 0 ELSE days_before_month(y, m - 1) + mdays(y, m - 1)

\* NaiveDate::parse_from_str(input, "%Y-%m-%d") of the text "y-m-d".
parse_from_str(ymd) ==
    IF ymd.m \in 1..12 /\ ymd.d \in 1..mdays(ymd.y, ymd.m)
    THEN Ok(NaiveDate(ymd.y, days_before_month(ymd.y, ymd.m) + ymd.d))
    ELSE Err("ParseError", <<>>)

\* parse_date: date_str is a lower-cased word, or a text with "-" kept as its
\* three numbers; today is the local date.
parse_date(today, date_str) ==
    IF ~date_str.dashed
    THEN CASE date_str.word = "today" -> Ok(today)
           [] date_str.word = "yesterday" -> Ok(pred(today))
           [] OTHER ->
                LET day == parse_weekday(date_str.word)
                IN  IF day.tag = "Ok"
                    THEN IF num_days_from_monday(today) > day.val
                         THEN LET d == from_isoywd(today.year, iso_week(today).week,
                                                   day.val)
                              IN  IF "tag" \in DOMAIN d THEN d ELSE Ok(d)
                         ELSE LET d == from_isoywd(today.year,
                                                   iso_week(today).week - 1, day.val)
                              IN  IF "tag" \in DOMAIN d THEN d ELSE Ok(d)
                    ELSE Err("Parse",
                             <<"should be a relative definition of date">>)
    ELSE LET date == parse_from_str(date_str.ymd)
         IN  IF date.tag = "Ok" THEN date
             ELSE Err("Parse", <<"should be in YYYY-MM-DD format">>)

\* Sample times of day and time arguments.
SampleHours == {0, 9, 17, 23}
SampleMinutes == {0, 30, 59}

TimeArgs ==
    {[directive |-> d, time |-> [hh |-> h, mm |-> m], minutes |-> 0] :
        d \in {"s", "t", "x"}, h \in SampleHours \cup {24}, m \in SampleMinutes \cup {60}}
      \cup {[directive |-> "", time |-> [hh |-> 0, mm |-> 0], minutes |-> n] :
              n \in {0, 90}}

\* Sample dates and date arguments.
SampleDates == {NaiveDate(y, o) : y \in 2019..2021, o \in 1..366} \ 
                 {NaiveDate(y, 366) : y \in {z \in 2019..2021 : ~is_leap_year(z)}}

Word(w) == [dashed |-> FALSE, word |-> w, ymd |-> [y |-> 0, m |-> 0, d |-> 0]]

Dashed(y, m, d) == [dashed |-> TRUE, word |-> "", ymd |-> [y |-> y, m |-> m, d |-> d]]

DateArgs ==
    {Word(w) : w \in {"today", "yesterday", "man"}
                        \cup UNION {WeekdayNames[i] : i \in 1..Len(WeekdayNames)}}
      \cup {Dashed(2020, 4, 20), Dashed(2020, 2, 29), Dashed(2021, 2, 29),
            Dashed(2020, 4, 200)}

InitArgs ==
    /\ entity = "HourLog"
    /\ bookit_dir = TRUE
    /\ file = NoFile
    /\ procs = <<>>
    /\ \/ \E h \in SampleHours, m \in SampleMinutes, sec \in {0, 30},
             arg \in TimeArgs :
               last = [op |-> "time_arg", now |-> NaiveTime(h, m, sec), arg |-> arg]
       \/ \E today \in SampleDates, arg \in DateArgs :
               last = [op |-> "date_arg", today |-> today, arg |-> arg]

InterpretTime ==
    /\ last.op = "time_arg"
    /\ last' = [op |-> "interpret_time", now |-> last.now, arg |-> last.arg,
                res |-> interpret_time(last.now, last.arg)]
    /\ UNCHANGED <<entity, bookit_dir, file, procs>>

ParseDate ==
    /\ last.op = "date_arg"
    /\ last' = [op |-> "parse_date", today |-> last.today, arg |-> last.arg,
                res |-> parse_date(last.today, last.arg)]
    /\ UNCHANGED <<entity, bookit_dir, file, procs>>

NextArgs ==
    \/ InterpretTime
    \/ ParseDate

SpecArgs == InitArgs /\ [][NextArgs]_vars

(***************************************************************************)
(* The sqlite store of src/db                                              *)
(***************************************************************************)
\* The tables made by the migrations of src/db/migrations: each table has a
\* primary key, and a column of alias refers to a column of contractor.
Schema ==
    [contractor |-> [primary_key |-> "slug", references |-> <<>>],
     alias |-> [primary_key |-> "slug",
                references |-> <<[column |-> "contractor", table |-> "contractor",
                                  key |-> "slug"]>>]]

\* Connection::open_in_memory: an empty database; the foreign_keys pragma of
\* a new connection is the default of the sqlite build.
open_in_memory(default_foreign_keys) ==
    [foreign_keys |-> default_foreign_keys, contractor |-> {}, alias |-> {}]

set_db_config(conn) == Ok([conn EXCEPT !.foreign_keys = TRUE])

\* Mutant: migrate leaves the pragma of the connection alone.
migrate_without_db_config(conn) == Ok(conn)

migrate(conn) == set_db_config(conn)

\* Connection::execute of "insert into <table> ...": sqlite refuses a second
\* row with the primary key and, when the pragma is on, a row that refers to
\* no row of the other table.
execute_insert(conn, table, row) ==
    LET key == Schema[table].primary_key
        refs == Schema[table].references
    IN  CASE \E r \in conn[table] : r[key] = row[key] ->
                Err("DbError", <<"UNIQUE constraint failed", table>>)
          [] /\ conn.foreign_keys
             /\ \E i \in 1..Len(refs) :
                    ~\E r \in conn[refs[i].table] : r[refs[i].key] = row[refs[i].column] ->
                Err("DbError", <<"FOREIGN KEY constraint failed">>)
          [] OTHER -> Ok([conn EXCEPT ![table] = @ \cup {row}])

\* create_alias and create_contractor return only Ok(()) or the error; the
\* connection after the statement is kept beside the result.
create_alias(conn, alias) ==
    LET done == execute_insert(conn, "alias",
                    [slug |-> alias.slug, contractor |-> alias.contractor,
                     rate |-> alias.hourly_rate])
    IN  IF done.tag = "Err" THEN [res |-> done, conn |-> conn]
        ELSE [res |-> Ok(Unit), conn |-> done.val]

create_contractor(conn, contractor) ==
    LET done == execute_insert(conn, "contractor",
                    [slug |-> contractor.slug, name |-> contractor.name])
    IN  IF done.tag = "Err" THEN [res |-> done, conn |-> conn]
        ELSE [res |-> Ok(Unit), conn |-> done.val]

\* delete_alias and delete_contractor: sqlite cannot prepare the statement
\* "... where slug = 1?", so nothing is deleted.
delete_alias(conn, alias) ==
    [res |-> Err("DbError", <<"syntax error">>), conn |-> conn]

delete_contractor(conn, contractor) ==
    [res |-> Err("DbError", <<"syntax error">>), conn |-> conn]

\* get_aliases: every alias row left-joined with its contractor; a row with
\* no contractor has NULL where a String is read, and the unwrap panics.
get_aliases(conn) ==
    IF \E a \in conn.alias : ~\E c \in conn.contractor : c.slug = a.contractor
    THEN Panic("called Result::unwrap() on an Err value")
    ELSE Ok({[slug |-> a.slug, hourly_rate |-> a.rate, contractor |-> c.slug,
              short_description |-> <<"alias for", c.name>>] :
                <<a, c>> \in {x \in conn.alias \X conn.contractor :
                                x[2].slug = x[1].contractor}})

get_contractors(conn) ==
    Ok({[slug |-> c.slug, name |-> c.name] : c \in conn.contractor})

\* A test of src/db: a fresh in-memory connection after migrate, then any
\* sequence of the functions of db/alias.rs and db/contractors.rs.
InitDb ==
    /\ entity = "Alias"
    /\ bookit_dir = TRUE
    /\ procs = <<>>
    /\ last = NoCall
    /\ \E default_foreign_keys \in BOOLEAN :
            file = migrate(open_in_memory(default_foreign_keys)).val

DbCall(op, arg, done) ==
    /\ file' = done.conn
    /\ last' = [op |-> op, arg |-> arg, pre |-> file, res |-> done.res]
    /\ UNCHANGED <<entity, bookit_dir, procs>>

DbContractors ==
    {[slug |-> sl, name |-> Names[v]] : sl \in Slugs, v \in Variants}

DbAliases ==
    {[slug |-> sl, contractor |-> c, hourly_rate |-> 10, short_description |-> ""] :
        sl \in Slugs, c \in Slugs}

CreateContractor == \E c \in DbContractors :
    DbCall("create_contractor", c, create_contractor(file, c))

CreateAlias == \E a \in DbAliases :
    DbCall("create_alias", a, create_alias(file, a))

DeleteContractor == \E c \in DbContractors :
    DbCall("delete_contractor", c, delete_contractor(file, c))

DeleteAlias == \E a \in DbAliases :
    DbCall("delete_alias", a, delete_alias(file, a))

GetAliases ==
    DbCall("get_aliases", Unit, [res |-> get_aliases(file), conn |-> file])

GetContractors ==
    DbCall("get_contractors", Unit, [res |-> get_contractors(file), conn |-> file])

NextDb ==
    \/ CreateContractor
    \/ CreateAlias
    \/ DeleteContractor
    \/ DeleteAlias
    \/ GetAliases
    \/ GetContractors

SpecDb == InitDb /\ [][NextDb]_vars

(***************************************************************************)
(* Properties of the store (checked under Spec)                            *)
(***************************************************************************)
\* The collection the file held before the last call, and the one it holds now.
PreMap == mapping(entity, bookit_dir, last.pre)
CurMap == mapping(entity, bookit_dir, file)

\* The errors of the store for a slug that exists and for one that does not.
AlreadyExists(res, slug) ==
    res = Err("CmdError", <<"item with slug", slug, "already exists">>)

WasNotFound(res, slug) ==
    res = Err("CmdError", <<"item with slug", slug, "was not found">>)

NotFound(res, slug) ==
    /\ res.tag = "Err"
    /\ res.kind = "CmdError"
    /\ SubSeq(res.detail, 1, 2) = <<slug, "not found. Available values are:">>

\* C1: loading a collection whose backing file does not exist returns the
\* empty mapping and no error, for every entity type.
C1_MissingFileLoadsEmpty ==
    (last.op = "mapping" /\ bookit_dir /\ ~last.pre.exists)
        => last.res = Ok(EmptyMap)

\* C2: add(r) on a collection that already contains r.identifier() fails with
\* the duplicate-identifier error, writes nothing, and leaves the collection as
\* it was: the record stored under that identifier is still the one retrieved.
C2_DuplicateAddRejected ==
    (last.op = "add" /\ PreMap.tag = "Ok" /\ contains_key(PreMap.val, last.slug))
        => /\ AlreadyExists(last.res, last.slug)
           /\ ~last.wrote
           /\ file = last.pre
           /\ retrieve(entity, bookit_dir, file, last.slug) = {Ok(PreMap.val[last.slug])}

C2_Witness ==
    /\ last.op = "add"
    /\ PreMap.tag = "Ok"
    /\ contains_key(PreMap.val, last.slug)
    /\ PreMap.val[last.slug] # last.rec
    /\ last.res.tag = "Err"

\* C3: if add(r) returns success, a retrieve(r.identifier()) that follows
\* immediately returns a record equal to r.
C3_AddThenRetrieve ==
    (last.op = "add" /\ last.res.tag = "Ok")
        => retrieve(entity, bookit_dir, file, last.slug) = {Ok(last.rec)}

C3_Witness ==
    /\ last.op = "add"
    /\ last.res.tag = "Ok"
    /\ PreMap.val # EmptyMap

\* C4: if the delete of the record with identifier id returns success, a
\* retrieve(id) that follows immediately fails with the missing-identifier
\* error.
C4_DeleteThenRetrieve ==
    (last.op \in {"delete", "delete_subject"} /\ last.res.tag = "Ok")
        => \A res \in retrieve(entity, bookit_dir, file, last.slug) :
               NotFound(res, last.slug)

C4_Witness ==
    /\ last.op = "delete_subject"
    /\ last.res.tag = "Ok"
    /\ contains_key(PreMap.val, last.slug)
    /\ file.text # {}

\* C5: delete and overwrite called for an identifier that is absent from the
\* collection fail with the missing-identifier error and leave the stored
\* collection unchanged; overwrite never creates an entry.
C5_AbsentDeleteOverwriteRejected ==
    (/\ last.op \in {"delete", "overwrite"}
     /\ PreMap.tag = "Ok"
     /\ ~contains_key(PreMap.val, last.slug))
        => /\ WasNotFound(last.res, last.slug)
           /\ ~last.wrote
           /\ file = last.pre
           /\ ~contains_key(CurMap.val, last.slug)

C5_Witness ==
    /\ last.op = "overwrite"
    /\ PreMap.tag = "Ok"
    /\ PreMap.val # EmptyMap
    /\ ~contains_key(PreMap.val, last.slug)
    /\ last.res.tag = "Err"

\* C6: if overwrite(r) succeeds on a collection containing r.identifier(), the
\* collection has as many entries as before and retrieve(r.identifier())
\* returns r.
C6_OverwriteKeepsSize ==
    (last.op = "overwrite" /\ last.res.tag = "Ok")
        => /\ contains_key(PreMap.val, last.slug)
           /\ Cardinality(DOMAIN CurMap.val) = Cardinality(DOMAIN PreMap.val)
           /\ retrieve(entity, bookit_dir, file, last.slug) = {Ok(last.rec)}

C6_Witness ==
    /\ last.op = "overwrite"
    /\ last.res.tag = "Ok"
    /\ PreMap.val[last.slug] # last.rec
    /\ Cardinality(DOMAIN PreMap.val) >= 2

\* C7: after any sequence of add, delete and overwrite calls starting from an
\* empty collection, no two records of the stored collection have the same
\* identifier.
C7_IdentifiersDistinct ==
    \A e1, e2 \in file.text :
        identifier(entity, e1.val) = identifier(entity, e2.val) => e1 = e2

C7_Witness ==
    /\ last.op = "overwrite"
    /\ last.res.tag = "Ok"
    /\ Cardinality(file.text) >= 2

\* C17: a failure of a store operation is returned to the immediate caller:
\* whenever the add performed by the book command fails, exec_cmd_book returns
\* that error and does not report success.
C17_BookReturnsAddError ==
    (last.op = "exec_cmd_book" /\ last.added.tag = "Err")
        => last.res = last.added

\* C26: after any sequence of add, delete and overwrite calls, of Crud or of
\* ConfigCrud, starting from an empty collection, every entry of the stored
\* mapping is keyed by the identifier of the record it holds.
C26_KeyIsIdentifier ==
    CurMap.tag = "Ok"
        => \A k \in DOMAIN CurMap.val : identifier(entity, CurMap.val[k]) = k

C26_Witness ==
    /\ last.op \in {"overwrite", "config_overwrite"}
    /\ last.res.tag = "Ok"
    /\ CurMap.tag = "Ok"
    /\ Cardinality(DOMAIN CurMap.val) = NumSlugs
    /\ CurMap.val[last.slug] # PreMap.val[last.slug]

\* C27: update_subject(slug) never changes the set of identifiers of the
\* collection: on success only the record stored under slug is replaced, by a
\* record with the same identifier, and for an absent slug it fails at
\* retrieve without prompting or writing.
C27_UpdateKeepsIdentifiers ==
    (last.op = "update_subject" /\ PreMap.tag = "Ok")
        => /\ CurMap.tag = "Ok"
           /\ DOMAIN CurMap.val = DOMAIN PreMap.val
           /\ \A k \in DOMAIN PreMap.val \ {last.slug} : CurMap.val[k] = PreMap.val[k]
           /\ last.res.tag = "Ok"
                 => identifier(entity, CurMap.val[last.slug]) = last.slug
           /\ ~contains_key(PreMap.val, last.slug)
                 => /\ NotFound(last.res, last.slug)
                    /\ ~last.prompted
                    /\ ~last.wrote
                    /\ file = last.pre

C27_Witness ==
    /\ last.op = "update_subject"
    /\ last.res.tag = "Ok"
    /\ last.prompted
    /\ Cardinality(DOMAIN PreMap.val) >= 2
    /\ CurMap.val[last.slug] # PreMap.val[last.slug]

\* C22: a successful add, delete or overwrite of identifier id changes only the
\* entry for id: every other identifier present before is present afterwards
\* with an equal record, and no other identifier appears or disappears.
C22_OtherEntriesKept ==
    (last.op \in {"add", "delete", "overwrite"} /\ last.res.tag = "Ok")
        => /\ DOMAIN CurMap.val \ {last.slug} = DOMAIN PreMap.val \ {last.slug}
           /\ \A k \in DOMAIN PreMap.val \ {last.slug} :
                  CurMap.val[k] = PreMap.val[k]

C22_Witness ==
    /\ last.op \in {"add", "delete", "overwrite"}
    /\ last.res.tag = "Ok"
    /\ DOMAIN PreMap.val \ {last.slug} # {}
    /\ CurMap # PreMap

\* C24: starting from the state in which the backing file does not exist,
\* add(r) succeeds, creates the file, and the collection afterwards is exactly
\* the single entry r.identifier() -> r.
C24_FirstAddCreatesFile ==
    (last.op = "add" /\ bookit_dir /\ ~last.pre.exists)
        => /\ last.res = Ok(Unit)
           /\ file.exists
           /\ CurMap = Ok(insert(EmptyMap, last.slug, last.rec))

(***************************************************************************)
(* Properties of apply_filterset (checked under SpecFilter)                *)
(***************************************************************************)
\* The sequence handed to the i-th filter of the chain when every filter before
\* it is applied in turn.
RECURSIVE StepInput(_, _, _, _)
StepInput(T, items, filters, i) ==
    IF i = 1 THEN items
    ELSE filter(T, StepInput(T, items, filters, i - 1), filters[i - 1])

FilterNoResults == Err("FilterNoResults", <<>>)

Applied == last.op = "apply_filterset"

\* C8: apply_filterset(items, []) returns items unchanged, in the same order,
\* as a success, also for the empty items; FilterNoResults is raised only when
\* at least one filter remains to be applied to an empty sequence.
C8_EmptyChainPassesThrough ==
    Applied =>
        /\ Len(last.filters) = 0 => last.res = Ok(last.items)
        /\ last.res = FilterNoResults =>
              \E i \in 1..Len(last.filters) :
                  StepInput(entity, last.items, last.filters, i) = <<>>

\* C9: once the sequence handed to a filter step is empty, the chain fails with
\* FilterNoResults and neither that filter nor a later one is invoked.
C9_ShortCircuitOnEmpty ==
    Applied =>
        \A i \in 1..Len(last.filters) :
            StepInput(entity, last.items, last.filters, i) = <<>>
                => /\ last.res = FilterNoResults
                   /\ Len(last.invoked) < i

C9_Witness ==
    /\ Applied
    /\ Len(last.filters) = 2
    /\ last.items # <<>>
    /\ StepInput(entity, last.items, last.filters, 2) = <<>>
    /\ last.invoked = <<last.filters[1]>>

\* C10: when the last filter of a chain is applied to a non-empty sequence and
\* matches no record, apply_filterset succeeds with the empty sequence.
C10_LastFilterMayEmpty ==
    (/\ Applied
     /\ Len(last.filters) >= 1
     /\ StepInput(entity, last.items, last.filters, Len(last.filters)) # <<>>
     /\ filter(entity,
               StepInput(entity, last.items, last.filters, Len(last.filters)),
               last.filters[Len(last.filters)]) = <<>>)
        => last.res = Ok(<<>>)

\* C23: when every intermediate result is non-empty, apply_filterset(items,
\* [f1..fn]) equals filter(...filter(filter(items, f1), f2)..., fn): the
\* filters are applied in list order, each to the output of the one before.
C23_ChainIsFold ==
    (/\ Applied
     /\ \A i \in 1..Len(last.filters) :
            StepInput(entity, last.items, last.filters, i) # <<>>)
        => last.res =
              Ok(StepInput(entity, last.items, last.filters, Len(last.filters) + 1))

\* The place of the record with identifier id in items.
IndexOf(items, id) == CHOOSE i \in DOMAIN items : identifier("HourLog", items[i]) = id

\* C25: HourLog sort with ByTimestamp returns a permutation of its input
\* ordered by timestamp from newest to oldest, records with equal timestamps
\* keep their relative input order, and sorting twice gives the same as once.
C25_ByTimestampStableDescending ==
    (last.op = "sort" /\ entity = "HourLog" /\ last.sort = ByTimestamp)
        => /\ Len(last.res) = Len(last.items)
           /\ {last.res[i] : i \in DOMAIN last.res}
                 = {last.items[i] : i \in DOMAIN last.items}
           /\ \A i, j \in DOMAIN last.res :
                  i < j => last.res[i].timestamp >= last.res[j].timestamp
           /\ \A i, j \in DOMAIN last.items :
                  (i < j /\ last.items[i].timestamp = last.items[j].timestamp)
                      => IndexOf(last.res, last.items[i].id)
                            < IndexOf(last.res, last.items[j].id)
           /\ sort(entity, last.res, ByTimestamp) = last.res

C25_Witness ==
    /\ last.op = "sort"
    /\ entity = "HourLog"
    /\ last.sort = ByTimestamp
    /\ Len(last.items) = 3
    /\ last.items[1].timestamp = last.items[3].timestamp
    /\ last.items[2].timestamp > last.items[1].timestamp
    /\ last.res = <<last.items[2], last.items[1], last.items[3]>>

\* C11: for each entity type, sort with the default sort value NoSort returns
\* the input sequence: the same elements in the same order.
C11_NoSortIsIdentity ==
    (last.op = "sort" /\ last.sort = NoSort) => last.res = last.items

C11_Witness ==
    /\ last.op = "sort"
    /\ last.sort = NoSort
    /\ entity = "HourLog"
    /\ sort_by_timestamp_desc(last.items) # last.items

C12_MissNamesAvailable ==
    (/\ last.op = "retrieve"
     /\ PreMap.tag = "Ok"
     /\ ~contains_key(PreMap.val, last.slug))
        => /\ NotFound(last.res, last.slug)
           /\ last.res.detail[3] \subseteq DOMAIN PreMap.val
           /\ Cardinality(DOMAIN PreMap.val) <= 10
                 => /\ last.res.detail[3] = DOMAIN PreMap.val
                    /\ last.res.detail[4] = ""
           /\ Cardinality(DOMAIN PreMap.val) > 10
                 => /\ Cardinality(last.res.detail[3]) = 10
                    /\ last.res.detail[4] = "(output truncated...)"

C12_Witness ==
    /\ last.op = "retrieve"
    /\ PreMap.tag = "Ok"
    /\ Cardinality(DOMAIN PreMap.val) = 11
    /\ ~contains_key(PreMap.val, last.slug)
    /\ last.res.tag = "Err"
    /\ SlugNames[1] \notin last.res.detail[3]

(***************************************************************************)
(* Properties of one call on a faulty file (checked under SpecFault)       *)
(***************************************************************************)
CrudMutators == {"add", "delete", "overwrite"}
CrudOps == {"mapping", "retrieve"} \cup CrudMutators
ConfigMutators == {"config_add", "config_delete", "config_overwrite"}
ConfigOps == {"config_retrieve"} \cup ConfigMutators

\* What the file held before the last call, as ConfigCrud loads it.
ConfigPreMap == config_mapping(entity, bookit_dir, last.pre)

\* C13: if the commit step of add, delete or overwrite fails, the caller
\* receives a write error and the file still decodes to the collection it held
\* before the call.
C13_FailedCommitKeepsFile ==
    (last.op \in CrudMutators /\ last.wrote /\ last.res.tag = "Err")
        => /\ last.res.kind = "Write"
           /\ CurMap = PreMap

\* C14: when the file exists and its content does not decode, retrieve, add,
\* delete and overwrite fail with a serialization error (Crud) or with the
\* panic that reports the file as corrupt (ConfigCrud), and the file is not
\* written: it is left as it was.
C14_CorruptFileUntouched ==
    (/\ last.op \in (CrudOps \cup ConfigOps) \ {"mapping"}
     /\ bookit_dir
     /\ last.pre.exists
     /\ last.pre.readable
     /\ deserialize(entity, last.pre.text).tag = "Err")
        => /\ last.op \in CrudOps
                 => last.res.tag = "Err" /\ last.res.kind = "Serialization"
           /\ last.op \in ConfigOps
                 => last.res =
                        Panic("Unable to deserialize object, file might be corrupt")
           /\ ~last.wrote
           /\ file = last.pre

C14_Witness ==
    /\ last.op = "add"
    /\ bookit_dir
    /\ last.pre.exists
    /\ last.pre.readable
    /\ last.pre.write = "ok"
    /\ deserialize(entity, last.pre.text).tag = "Err"
    /\ Cardinality(last.pre.text) >= 2
    /\ \A e \in last.pre.text : e.key # last.slug
    /\ last.res.tag = "Err"

\* C15: when the file exists and cannot be read, the load fails with a read
\* error and a mutating operation writes nothing: the file is not taken to be
\* an empty collection and is not replaced.
C15_UnreadableFileNotReplaced ==
    (/\ last.op \in {"mapping"} \cup CrudMutators \cup ConfigMutators
     /\ bookit_dir
     /\ last.pre.exists
     /\ ~last.pre.readable)
        => /\ last.res.tag = "Err"
           /\ last.res.kind = "Read"
           /\ ~last.wrote
           /\ file = last.pre

\* C16: when BOOKIT_DIR is not set, every store operation returns the Env
\* error, no file is written, and the process is not aborted.
C16_UnsetDirIsEnvError ==
    (last.op \in CrudOps \cup ConfigOps /\ ~bookit_dir)
        => /\ last.res.tag = "Err"
           /\ last.res.kind = "Env"
           /\ ~last.wrote
           /\ file = last.pre

\* C18: in Crud and in ConfigCrud, add of an identifier the collection holds
\* and delete, overwrite and retrieve of one it does not hold end in an error
\* value; none terminates the process.
C18_RejectionsAreErrorValues ==
    /\ (last.op \in CrudOps \ {"mapping"} /\ PreMap.tag = "Ok"
            /\ (last.op = "add") = contains_key(PreMap.val, last.slug))
          => last.res.tag = "Err"
    /\ (last.op \in ConfigOps /\ ConfigPreMap.tag = "Ok"
            /\ (last.op = "config_add") = contains_key(ConfigPreMap.val, last.slug))
          => last.res.tag = "Err"

(***************************************************************************)
(* Properties of two racing processes (checked under SpecRace)             *)
(***************************************************************************)
BothDone == \A i \in Procs : procs[i].pc = "done"

\* The load-to-commit steps of the two processes interleave: each made its
\* first read before the other began to write.
Interleaved == \A i \in Procs : ~procs[i].late

\* The call of process i succeeds when it runs alone on the initial file.
ValidAlone(i) ==
    write_ok(entity, bookit_dir, last.pre, identifier(entity, procs[i].rec),
             slug_expect(procs[i].op)).tag = "Ok"

\* C19: when the load-to-commit steps of two processes that run mutating
\* operations on the same file interleave, neither receives an error, and the
\* file ends as the snapshot committed by the last writer.
C19_RaceLastWriterWins ==
    (BothDone /\ Interleaved /\ \A i \in Procs : ValidAlone(i))
        => /\ \A i \in Procs : procs[i].res = Ok(Unit)
           /\ file = FileWith(procs[last.writer].text)

\* Both processes add, and their records have the same identifier.
SameIdAdds ==
    /\ \A i \in Procs : procs[i].op = "add"
    /\ identifier(entity, procs[1].rec) = identifier(entity, procs[2].rec)

\* The entry of the file that holds record self.
EntryOf(self) == [key |-> identifier(entity, self), val |-> encode(entity, self)]

C29_StretchWithinDay ==
    (/\ last.op = "interpret_time"
     /\ last.arg.directive \in {"s", "t"}
     /\ parse_time(last.arg.time).tag = "Ok"
     /\ last.res.tag = "Ok")
        => last.res.val.hi = 0 /\ last.res.val.lo \in 0..1439

\* C30: a weekday word resolves, without a panic, to the date of that weekday
\* that lies 1 to 7 days before today, for every current date.
C30_WeekdayIsLastOccurrence ==
    (/\ last.op = "parse_date"
     /\ ~last.arg.dashed
     /\ parse_weekday(last.arg.word).tag = "Ok")
        => /\ last.res.tag = "Ok"
           /\ num_days_from_monday(last.res.val) = parse_weekday(last.arg.word).val
           /\ num_days_from_ce(last.today) - num_days_from_ce(last.res.val) \in 1..7

(***************************************************************************)
(* Properties of the sqlite store (checked under SpecDb)                   *)
(***************************************************************************)
HasContractor(conn, slug) == \E c \in conn.contractor : c.slug = slug

====
